---- MODULE Spec2Model ----
(***************************************************************************)
(* Model of the CLI task tracker of src/todo-go/main.go: the flock-guarded *)
(* CSV store (loadFile / closeFile / loadTasks / saveTasks / getNextID)    *)
(* and the add / list / complete / delete commands that run on it.         *)
(*                                                                         *)
(* Text is modelled as a sequence of one-character strings, so that the    *)
(* file is a byte sequence: a write overwrites bytes from offset 0 and     *)
(* leaves whatever lies behind the written bytes in place.                 *)
(***************************************************************************)
EXTENDS Integers, Sequences, FiniteSets, TLC

(***************************************************************************)
(* Bounds of the model.                                                    *)
(***************************************************************************)
NumProcs == 2       \* concurrent processes of the concurrent specification
MaxCmds == 2        \* command invocations in a run of the concurrent specification
MaxRaceCmds == 3    \* command invocations in a run of the longer concurrent specification
MaxSeqCmds == 4     \* command invocations in a run of the sequential specification
MaxLongCmds == 5    \* command invocations in a run of the long sequential specification
MaxFileCmds == 1    \* command invocations in a run that starts on a stored file
MaxIOCmds == 3      \* command invocations in a run with failing system calls
MaxOperand == 3     \* the calculator's operands a and b range over -MaxOperand..MaxOperand

Procs == 1..NumProcs
NoErr == "ok"

(***************************************************************************)
(* Text helpers.                                                           *)
(***************************************************************************)
DigitChars == <<"0", "1", "2", "3", "4", "5", "6", "7", "8", "9">>
IsDigit(c) == \E d \in 1..10 : DigitChars[d] = c
DigitVal(c) == (CHOOSE d \in 1..10 : DigitChars[d] = c) - 1

\* the element of a one-element set; in TheOne({F(v) : v \in {e}}) the value
\* of e is computed once, however often F uses it
TheOne(S) == CHOOSE y \in S : TRUE

MinOf(S) == CHOOSE x \in S : \A y \in S : x <= y
MaxOf(S) == CHOOSE x \in S : \A y \in S : x >= y

\* bytes.IndexByte restricted to positions i..e; 0 when absent
IndexFrom(data, c, i, e) ==
    LET S == {j \in i..e : data[j] = c}
    IN  IF S = {} THEN 0 ELSE MinOf(S)

Contains(s, c) == \E j \in 1..Len(s) : s[j] = c

\* strconv.Itoa
RECURSIVE Itoa(_)
Itoa(n) ==
    IF n < 0 THEN <<"-">> \o Itoa(0 - n)
    ELSE IF n < 10 THEN <<DigitChars[n + 1]>>
    ELSE Itoa(n \div 10) \o <<DigitChars[(n % 10) + 1]>>

RECURSIVE DigitsVal(_)
DigitsVal(s) ==
    IF s = <<>> THEN 0
    ELSE 10 * DigitsVal(SubSeq(s, 1, Len(s) - 1)) + DigitVal(s[Len(s)])

\* strconv.Atoi: optional sign, then one or more decimal digits; anything
\* else is an error and the value is 0
Atoi(s) ==
    LET signed == s # <<>> /\ s[1] \in {"+", "-"}
        body == IF signed THEN Tail(s) ELSE s
        good == body # <<>> /\ \A j \in 1..Len(body) : IsDigit(body[j])
    IN  IF ~good THEN [val |-> 0, err |-> TRUE]
        ELSE [val |-> IF signed /\ s[1] = "-" THEN 0 - DigitsVal(body) ELSE DigitsVal(body),
              err |-> FALSE]

\* strconv.FormatBool
FormatBool(b) == IF b THEN <<"t", "r", "u", "e">> ELSE <<"f", "a", "l", "s", "e">>

TrueTexts == { <<"1">>, <<"t">>, <<"T">>, <<"T", "R", "U", "E">>,
               <<"t", "r", "u", "e">>, <<"T", "r", "u", "e">> }
FalseTexts == { <<"0">>, <<"f">>, <<"F">>, <<"F", "A", "L", "S", "E">>,
                <<"f", "a", "l", "s", "e">>, <<"F", "a", "l", "s", "e">> }

\* strconv.ParseBool
ParseBool(s) ==
    IF s \in TrueTexts THEN [val |-> TRUE, err |-> FALSE]
    ELSE IF s \in FalseTexts THEN [val |-> FALSE, err |-> FALSE]
    ELSE [val |-> FALSE, err |-> TRUE]

(***************************************************************************)
(* time.Time, over a window of ten seconds starting 2024-01-01T00:00:00Z.  *)
(* A time is its year (1 for the zero Time, 2024 otherwise), the second    *)
(* within the window and the nanoseconds within the second.                *)
(***************************************************************************)
ZeroTime == [year |-> 1, sec |-> 0, nsec |-> 0]
\* readings of the wall clock by time.Now()
NowSet == { [year |-> 2024, sec |-> 1, nsec |-> 0], [year |-> 2024, sec |-> 2, nsec |-> 500] }

DateTail == <<"-", "0", "1", "-", "0", "1", "T", "0", "0", ":", "0", "0", ":", "0">>

RECURSIVE Pad4(_)
Pad4(s) == IF Len(s) >= 4 THEN s ELSE Pad4(<<"0">> \o s)

\* Time.Format(time.RFC3339) in UTC: whole seconds, no fraction
FormatTime(t) == Pad4(Itoa(t.year)) \o DateTail \o Itoa(t.sec % 10) \o <<"Z">>

\* time.Parse(time.RFC3339, s) on the texts of the window
ParseTime(s) ==
    IF /\ Len(s) = 20
       /\ \A j \in 1..4 : IsDigit(s[j])
       /\ SubSeq(s, 5, 18) = DateTail
       /\ IsDigit(s[19])
       /\ s[20] = "Z"
    THEN [val |-> [year |-> DigitsVal(SubSeq(s, 1, 4)), sec |-> DigitVal(s[19]), nsec |-> 0],
          err |-> FALSE]
    ELSE [val |-> ZeroTime, err |-> TRUE]
(***************************************************************************)
(* encoding/csv Writer (Comma ',', UseCRLF false).                         *)
(***************************************************************************)
\* csv.Writer.fieldNeedsQuotes
FieldNeedsQuotes(f) ==
    IF f = <<>> THEN FALSE
    ELSE IF f = <<"\\", ".">> THEN TRUE
    ELSE \/ \E j \in 1..Len(f) : f[j] \in {",", "\"", "\r", "\n"}
         \/ f[1] \in {" ", "\t"}

RECURSIVE EscapeQuotes(_)
EscapeQuotes(f) ==
    IF f = <<>> THEN <<>>
    ELSE (IF f[1] = "\"" THEN <<"\"", "\"">> ELSE <<f[1]>>) \o EscapeQuotes(Tail(f))

WriteField(f) ==
    IF FieldNeedsQuotes(f) THEN <<"\"">> \o EscapeQuotes(f) \o <<"\"">> ELSE f

RECURSIVE JoinFields(_)
JoinFields(fields) ==
    IF fields = <<>> THEN <<>>
    ELSE IF Len(fields) = 1 THEN WriteField(fields[1])
    ELSE WriteField(fields[1]) \o <<",">> \o JoinFields(Tail(fields))

\* csv.Writer.Write: the bytes one record adds to the writer's buffer
WriteRecord(fields) == JoinFields(fields) \o <<"\n">>

(***************************************************************************)
(* encoding/csv Reader (Comma ',', FieldsPerRecord 0, LazyQuotes false).   *)
(* A record ends at a line break outside quotes, a field at a comma        *)
(* outside quotes; a byte is outside quotes when an even number of quote   *)
(* characters precedes it.  Q is the set of positions of the quote         *)
(* characters of the data.                                                 *)
(***************************************************************************)
QuotePos(data) == {i \in 1..Len(data) : data[i] = "\""}

Outside(Q, i) == Q = {} \/ Cardinality({q \in Q : q < i}) % 2 = 0

\* the elements of a set of numbers in increasing order
SortedSeq(S) ==
    [k \in 1..Cardinality(S) |-> CHOOSE x \in S : Cardinality({y \in S : y < x}) = k - 1]

\* a field as the reader returns it: unquoted text must hold no quote; quoted
\* text is closed by a quote and holds quotes only doubled
FieldValue(raw) ==
    TheOne({ IF ~Contains(f, "\"") THEN [err |-> NoErr, val |-> f]
             ELSE LET n == Len(f)
                      odd(k) == Cardinality({j \in 1..(k - 1) : f[j] = "\""}) % 2 = 1
                      wellFormed ==
                          /\ n >= 2 /\ f[1] = "\"" /\ f[n] = "\"" /\ odd(n)
                          /\ \A k \in 2..(n - 1) :
                                 (f[k] = "\"" /\ odd(k))
                                     => (k + 1 <= n - 1 /\ f[k + 1] = "\"")
                      kept == {k \in 2..(n - 1) : ~(f[k] = "\"" /\ odd(k))}
                  IN  IF wellFormed
                      THEN [err |-> NoErr,
                            val |-> TheOne({ [k \in 1..Len(at) |-> f[at[k]]] :
                                             at \in {SortedSeq(kept)} })]
                      ELSE [err |-> "ErrQuote", val |-> <<>>] :
             f \in {raw} })

\* csv.Reader.readRecord: the fields of the record that starts at s and is ended
\* by the line break (or the end of the data) at e
ReadRecord(data, Q, s, e) ==
    TheOne({ TheOne({ [k \in 1..Len(starts) |->
                         FieldValue(SubSeq(data, starts[k],
                             MinOf({c \in commas : c >= starts[k]} \cup {e}) - 1))] :
                      starts \in {SortedSeq({s} \cup {c + 1 : c \in commas})} }) :
             commas \in {{i \in s..(e - 1) : data[i] = "," /\ Outside(Q, i)}} })

\* the records of the data, each from its first byte to its line break
RecordsOf(data, Q, n, breaks) ==
    TheOne({ [k \in 1..Len(starts) |->
                 TheOne({ ReadRecord(data, Q, se[1], se[2]) :
                          se \in {<< starts[k],
                                     MinOf({i \in breaks : i > starts[k]} \cup {n + 1}) >>} })] :
             starts \in {SortedSeq({s \in {1} \cup {i + 1 : i \in breaks} :
                                       s <= n /\ data[s] # "\n"})} })

\* csv.Reader.ReadAll: empty lines are skipped; every record must have as many
\* fields as the first
ReadRecords(data, Q) ==
    TheOne({ IF \E k \in 1..Len(recs) : \E f \in 1..Len(recs[k]) : recs[k][f].err # NoErr
             THEN [err |-> "ErrQuote", records |-> <<>>]
             ELSE IF \E k \in 1..Len(recs) : Len(recs[k]) # Len(recs[1])
             THEN [err |-> "ErrFieldCount", records |-> <<>>]
             ELSE [err |-> NoErr,
                   records |-> [k \in 1..Len(recs) |->
                                   [f \in 1..Len(recs[k]) |-> recs[k][f].val]]] :
             recs \in {RecordsOf(data, Q, Len(data),
                           {i \in 1..Len(data) : data[i] = "\n" /\ Outside(Q, i)})} })

ReadAll(data) ==
    TheOne({ TheOne({ ReadRecords(d, Q) : Q \in {QuotePos(d)} }) : d \in {data} })

(***************************************************************************)
(* Tasks and their records.                                                *)
(***************************************************************************)
HeaderRecord ==
    << <<"I", "D">>,
       <<"D", "e", "s", "c", "r", "i", "p", "t", "i", "o", "n">>,
       <<"C", "r", "e", "a", "t", "e", "d", "A", "t">>,
       <<"I", "s", "C", "o", "m", "p", "l", "e", "t", "e", "d">> >>

\* the record saveTasks writes for one task
EncodeTask(t) ==
    << Itoa(t.ID), t.Description, FormatTime(t.CreatedAt), FormatBool(t.IsCompleted) >>

\* the Task loadTasks builds from one record; conversion errors are dropped
DecodeTask(rec) ==
    [ID |-> Atoi(rec[1]).val,
     Description |-> rec[2],
     CreatedAt |-> ParseTime(rec[3]).val,
     IsCompleted |-> ParseBool(rec[4]).val]

RECURSIVE EncodeTasks(_)
EncodeTasks(ts) ==
    IF ts = <<>> THEN <<>> ELSE WriteRecord(EncodeTask(ts[1])) \o EncodeTasks(Tail(ts))

\* everything saveTasks hands to the csv writer
SaveBuffer(ts) == WriteRecord(HeaderRecord) \o EncodeTasks(ts)

\* a write of buf at offset 0 of a file opened without O_TRUNC
WriteAtStart(old, buf) == buf \o SubSeq(old, Len(buf) + 1, Len(old))

\* loadTasks without the skip of the first record
LoadOfNoSkip(data) ==
    LET r == ReadAll(data)
    IN  IF r.err # NoErr THEN [err |-> "read", tasks |-> <<>>]
        ELSE IF Len(r.records) >= 1 /\ Len(r.records[1]) < 4
        THEN [err |-> "panic", tasks |-> <<>>]
        ELSE [err |-> NoErr,
              tasks |-> [i \in 1..Len(r.records) |-> DecodeTask(r.records[i])]]

\* loadTasks that gives up on the first conversion error
LoadOfStrict(data) ==
    LET r == ReadAll(data)
        bad(rec) == Atoi(rec[1]).err \/ ParseTime(rec[3]).err \/ ParseBool(rec[4]).err
    IN  IF r.err # NoErr THEN [err |-> "read", tasks |-> <<>>]
        ELSE IF Len(r.records) >= 2 /\ Len(r.records[1]) < 4
        THEN [err |-> "panic", tasks |-> <<>>]
        ELSE IF \E i \in 2..Len(r.records) : bad(r.records[i])
        THEN [err |-> "read", tasks |-> <<>>]
        ELSE [err |-> NoErr,
              tasks |-> [i \in 1..(Len(r.records) - 1) |-> DecodeTask(r.records[i + 1])]]

\* the body of loadTasks on the bytes of the file
LoadOf(data) ==
    TheOne({ IF r.err # NoErr THEN [err |-> "read", tasks |-> <<>>]
             ELSE IF Len(r.records) >= 2 /\ Len(r.records[1]) < 4
             THEN [err |-> "panic", tasks |-> <<>>]
             ELSE [err |-> NoErr,
                   tasks |-> [i \in 1..(Len(r.records) - 1) |->
                                 DecodeTask(r.records[i + 1])]] :
             r \in {ReadAll(data)} })

IDsOf(ts) == [i \in 1..Len(ts) |-> ts[i].ID]

\* getNextID without the final + 1
getNextIDNoIncrement(ts) ==
    IF ts = <<>> THEN 0 ELSE MaxOf({0} \cup {ts[i].ID : i \in 1..Len(ts)})

\* getNextID that looks at the last task only
getNextIDLast(ts) == IF ts = <<>> THEN 1 ELSE ts[Len(ts)].ID + 1

getNextID(ts) ==
    LET maxID == IF ts = <<>> THEN 0 ELSE MaxOf({0} \cup {ts[i].ID : i \in 1..Len(ts)})
    IN  maxID + 1
(***************************************************************************)
(* Data files a command may find on disk.  A stored record is its fields   *)
(* as text together with the Task its columns stand for: a well-formed     *)
(* column by its value, any other text by the zero value of its type.      *)
(***************************************************************************)
TimeText1 == <<"2", "0", "2", "4">> \o DateTail \o <<"1", "Z">>
Time1 == [year |-> 2024, sec |-> 1, nsec |-> 0]

IDOne == [text |-> <<"1">>, val |-> 1]
IDThree == [text |-> <<"3">>, val |-> 3]
IDBad == [text |-> <<"x">>, val |-> 0]
AtGood == [text |-> TimeText1, val |-> Time1]
AtBad == [text |-> <<"s", "o", "o", "n">>, val |-> ZeroTime]
DoneTrue == [text |-> <<"t", "r", "u", "e">>, val |-> TRUE]
DoneFalse == [text |-> <<"f", "a", "l", "s", "e">>, val |-> FALSE]
DoneBad == [text |-> <<"y", "e", "s">>, val |-> FALSE]

NoTask == [ID |-> 0, Description |-> <<>>, CreatedAt |-> ZeroTime, IsCompleted |-> FALSE]

\* a record of four columns; the description of task 3 holds the delimiter
StoredRow(id, at, done) ==
    LET desc == IF id.val = 3 THEN <<"b", ",", "c">> ELSE <<"a">>
    IN  [fields |-> << id.text, desc, at.text, done.text >>,
         task |-> [ID |-> id.val, Description |-> desc, CreatedAt |-> at.val,
                   IsCompleted |-> done.val]]

\* records whose columns are all well formed
GoodRows == {StoredRow(id, AtGood, done) : id \in {IDOne, IDThree}, done \in {DoneTrue, DoneFalse}}

\* records with a malformed ID, timestamp, flag, or all three
BadRows == { StoredRow(IDBad, AtGood, DoneFalse), StoredRow(IDOne, AtBad, DoneTrue),
             StoredRow(IDThree, AtGood, DoneBad), StoredRow(IDBad, AtBad, DoneBad) }

TaskRows == GoodRows \cup BadRows

HeaderRow == [fields |-> HeaderRecord, task |-> NoTask]

\* records of three and of five columns
ShortRow == [fields |-> << <<"1">>, <<"a">>, TimeText1 >>, task |-> NoTask]
LongRow == [fields |-> << <<"1">>, <<"a">>, TimeText1, <<"t", "r", "u", "e">>, <<"z">> >>,
            task |-> [ID |-> 1, Description |-> <<"a">>, CreatedAt |-> Time1,
                      IsCompleted |-> TRUE]]

\* files of four columns: a header or, in its place, a task record, then up to
\* two task records
FourColumnFiles ==
    LET firsts == {HeaderRow, StoredRow(IDOne, AtGood, DoneFalse)}
    IN  {<<h>> : h \in firsts}
        \cup {<<h, r>> : h \in firsts, r \in TaskRows}
        \cup {<<HeaderRow, r, q>> : r \in TaskRows, q \in TaskRows}

\* files in which the records differ in their number of columns, and files of
\* three or five columns throughout
OtherFiles ==
    { <<HeaderRow, ShortRow>>, <<HeaderRow, LongRow>>,
      <<HeaderRow, StoredRow(IDOne, AtGood, DoneFalse), ShortRow>>,
      <<ShortRow, StoredRow(IDOne, AtGood, DoneFalse)>>,
      <<ShortRow, ShortRow>>, <<LongRow, LongRow>> }

StoredFiles == {<<>>} \cup FourColumnFiles \cup OtherFiles

\* the bytes of a file that holds the records rs
RECURSIVE RowsText(_)
RowsText(rs) ==
    IF rs = <<>> THEN <<>> ELSE WriteRecord(rs[1].fields) \o RowsText(Tail(rs))

(***************************************************************************)
(* Command lines.                                                          *)
(***************************************************************************)
Descs == { <<"a">>, <<"b", "c">> }           \* descriptions given to add
IdArgs == { <<"1">>, <<"2">>, <<"x">> }      \* arguments given to complete and delete

Commands ==
    {[op |-> "add", text |-> d, all |-> FALSE] : d \in Descs}
    \cup {[op |-> "list", text |-> <<>>, all |-> a] : a \in BOOLEAN}
    \cup {[op |-> o, text |-> a, all |-> FALSE] : o \in {"complete", "delete"}, a \in IdArgs}

NoCmd == [op |-> "none", text |-> <<>>, all |-> FALSE]
NoSave == [by |-> 0, base |-> 0, op |-> "none", id |-> 0]

NoRequest == [path |-> "", method |-> "", valid |-> FALSE, A |-> 0, B |-> 0]
NoResponse == [code |-> 0, hasResult |-> FALSE, Result |-> 0, Error |-> ""]

(***************************************************************************)
(* State.                                                                  *)
(***************************************************************************)
VARIABLES
    file,        \* the bytes of the data file
    fileExists,  \* whether the data file exists
    open,        \* the processes that hold an open descriptor on the file
    holders,     \* the processes whose descriptor holds the exclusive flock
    pc,          \* where each process is in its command
    cmd,         \* the command line of each process
    tasks,       \* tasks, the slice loadTasks returned to the command
    out,         \* the slice the command passes to saveTasks
    status,      \* how the command ended
    newID,       \* newTask.ID of an add
    started,     \* command invocations so far
    \* history, for stating the properties
    loaded,      \* what the command's loadTasks returned
    calledSave,  \* whether the command called saveTasks
    fileAtStart, \* the bytes of the file when the command started
    savedLists,  \* what a load of exactly the bytes of each saveTasks so far returns
    ver,         \* number of saveTasks that have written
    base,        \* ver when the command's loadTasks read the file
    lastSave,    \* the latest saveTasks that has written
    prevSave,    \* the one before it
    added,       \* the IDs add has assigned, in order, each with the IDs deleted before
    deleted,     \* the IDs delete has removed
    scn,         \* progress along add, add, complete 1, delete 1, add
    printed,     \* the rows listCmd has written to standard output
    rows,        \* the records the data file held at the start
    req,         \* the HTTP request the calculator is serving
    resp         \* the HTTP response it has written

vars == << file, fileExists, open, holders, pc, cmd, tasks, out, status, newID,
           started, loaded, calledSave, fileAtStart, savedLists, ver, base, lastSave,
           prevSave, added, deleted, scn, printed, rows, req, resp >>

\* the state of the calculator service
calc == << req, resp >>

hist == << loaded, calledSave, fileAtStart, savedLists, ver, base, lastSave, prevSave,
           added, deleted, scn >>

\* no process runs a command, nothing has happened yet
InitProcs ==
    /\ open = {}
    /\ holders = {}
    /\ pc = [p \in Procs |-> "idle"]
    /\ cmd = [p \in Procs |-> NoCmd]
    /\ tasks = [p \in Procs |-> <<>>]
    /\ out = [p \in Procs |-> <<>>]
    /\ status = [p \in Procs |-> "none"]
    /\ newID = [p \in Procs |-> 0]
    /\ started = 0
    /\ loaded = [p \in Procs |-> <<>>]
    /\ calledSave = [p \in Procs |-> FALSE]
    /\ fileAtStart = [p \in Procs |-> <<>>]
    /\ savedLists = {}
    /\ ver = 0
    /\ base = [p \in Procs |-> 0]
    /\ lastSave = NoSave
    /\ prevSave = NoSave
    /\ added = <<>>
    /\ deleted = {}
    /\ scn = 0
    /\ printed = [p \in Procs |-> <<>>]
    /\ req = NoRequest
    /\ resp = NoResponse

\* the data file does not exist yet
Init ==
    /\ file = <<>>
    /\ fileExists = FALSE
    /\ rows = <<>>
    /\ InitProcs

\* the step of the scenario add, add, complete 1, delete 1, add that c continues
ScnNext(c) ==
    IF scn < 0 \/ c.op = "list" THEN scn
    ELSE IF scn \in {0, 1, 4} /\ c.op = "add" THEN scn + 1
    ELSE IF scn = 2 /\ c.op = "complete" /\ c.text = <<"1">> THEN 3
    ELSE IF scn = 3 /\ c.op = "delete" /\ c.text = <<"1">> THEN 4
    ELSE -1

(***************************************************************************)
(* A process starts a command: cobra runs the command's RunE.  complete    *)
(* and delete first convert their argument.  Processes are interchangeable *)
(* slots: a new invocation takes the lowest free one.                      *)
(***************************************************************************)
Invoke(p, max) ==
    /\ pc[p] = "idle"
    /\ \A q \in Procs : q < p => pc[q] # "idle"
    /\ started < max
    /\ \E c \in Commands :
        /\ cmd' = [cmd EXCEPT ![p] = c]
        /\ scn' = ScnNext(c)
        /\ IF c.op \in {"complete", "delete"} /\ Atoi(c.text).err
           THEN /\ pc' = [pc EXCEPT ![p] = "exit"]
                /\ status' = [status EXCEPT ![p] = "invalid task ID"]
           ELSE /\ pc' = [pc EXCEPT ![p] = "load_open"]
                /\ status' = [status EXCEPT ![p] = "running"]
    /\ started' = started + 1
    /\ fileAtStart' = [fileAtStart EXCEPT ![p] = file]
    /\ UNCHANGED << file, fileExists, open, holders, tasks, out, newID, loaded,
                    calledSave, savedLists, ver, base, lastSave, prevSave, added, deleted >>
    /\ UNCHANGED << printed, rows, calc >>

(***************************************************************************)
(* loadFile: os.OpenFile with O_RDWR|O_CREATE, then a blocking flock.      *)
(***************************************************************************)
OpenFile(p) ==
    /\ fileExists' = TRUE
    /\ open' = open \cup {p}
    /\ UNCHANGED file

\* a flock that does not wait for the holder (LOCK_SH, or no flock at all)
CanFlockUnguarded == TRUE

\* syscall.Flock(fd, LOCK_EX) returns only when no other descriptor holds the lock
CanFlock == holders = {}

\* a return without the deferred closeFile
closeFileSkipped(p) == UNCHANGED << holders, open >>

\* closeFile: unlock, then close
closeFile(p) ==
    /\ holders' = holders \ {p}
    /\ open' = open \ {p}

LoadOpen(p) ==
    /\ pc[p] = "load_open"
    /\ OpenFile(p)
    /\ pc' = [pc EXCEPT ![p] = "load_flock"]
    /\ UNCHANGED << holders, cmd, tasks, out, status, newID, started, hist >>
    /\ UNCHANGED << printed, rows, calc >>

LoadFlock(p) ==
    /\ pc[p] = "load_flock"
    /\ CanFlock
    /\ holders' = holders \cup {p}
    /\ pc' = [pc EXCEPT ![p] = "load_read"]
    /\ UNCHANGED << file, fileExists, open, cmd, tasks, out, status, newID, started,
                    hist >>
    /\ UNCHANGED << printed, rows, calc >>

\* loadTasks from loadFile's return to its own: ReadAll, the decoding loop and
\* the deferred closeFile; the command goes on only without an error
LoadRead(p) ==
    /\ pc[p] = "load_read"
    /\ LET r == LoadOf(file)
       IN  /\ tasks' = [tasks EXCEPT ![p] = r.tasks]
           /\ loaded' = [loaded EXCEPT ![p] = r.tasks]
           /\ status' = [status EXCEPT ![p] =
                 IF r.err = NoErr THEN "loaded"
                 ELSE IF r.err = "read" THEN "failed to read CSV"
                 ELSE "panic: index out of range"]
           /\ pc' = [pc EXCEPT ![p] = IF r.err = NoErr THEN cmd[p].op ELSE "exit"]
    /\ base' = [base EXCEPT ![p] = ver]
    /\ closeFile(p)
    /\ UNCHANGED << file, fileExists, cmd, out, newID, started, calledSave, fileAtStart,
                    savedLists, ver, lastSave, prevSave, added, deleted, scn >>
    /\ UNCHANGED << printed, rows, calc >>

(***************************************************************************)
(* The commands, between loadTasks and saveTasks.                          *)
(***************************************************************************)
ArgID(p) == Atoi(cmd[p].text).val

HasID(ts, id) == \E i \in 1..Len(ts) : ts[i].ID = id

\* addCmd: the new task gets getNextID(tasks) and is appended
AddBody(p) ==
    /\ pc[p] = "add"
    /\ \E now \in NowSet :
        LET newTask == [ID |-> getNextID(tasks[p]), Description |-> cmd[p].text,
                        CreatedAt |-> now, IsCompleted |-> FALSE]
        IN  /\ tasks' = [tasks EXCEPT ![p] = Append(tasks[p], newTask)]
            /\ out' = [out EXCEPT ![p] = Append(tasks[p], newTask)]
            /\ newID' = [newID EXCEPT ![p] = newTask.ID]
            /\ added' = Append(added, [id |-> newTask.ID, text |-> cmd[p].text, dels |-> deleted])
    /\ pc' = [pc EXCEPT ![p] = "save_open"]
    /\ UNCHANGED << file, fileExists, open, holders, cmd, status, started, loaded,
                    calledSave, fileAtStart, savedLists, ver, base, lastSave, prevSave,
                    deleted, scn >>
    /\ UNCHANGED << printed, rows, calc >>

\* the row listCmd prints for a task: ID, description and, with --all, the
\* flag (the relative age between them is left to timediff)
ListRow(t, showAll) ==
    IF showAll THEN << t.ID, t.Description, t.IsCompleted >> ELSE << t.ID, t.Description >>

\* listCmd without the test of IsCompleted: every task is printed
ListBodyNoFilter(p) ==
    /\ pc[p] = "list"
    /\ printed' = [printed EXCEPT ![p] =
          [i \in 1..Len(tasks[p]) |-> ListRow(tasks[p][i], cmd[p].all)]]
    /\ status' = [status EXCEPT ![p] = "ok"]
    /\ pc' = [pc EXCEPT ![p] = "exit"]
    /\ UNCHANGED << file, fileExists, open, holders, cmd, tasks, out, newID, started,
                    hist >>
    /\ UNCHANGED << rows, calc >>

\* listCmd: prints the tasks, without --all only those not completed, and returns
ListBody(p) ==
    /\ pc[p] = "list"
    /\ LET showAll == cmd[p].all
           shown == SelectSeq(tasks[p], LAMBDA t : ~(~showAll /\ t.IsCompleted))
       IN  printed' = [printed EXCEPT ![p] =
               [i \in 1..Len(shown) |-> ListRow(shown[i], showAll)]]
    /\ status' = [status EXCEPT ![p] = "ok"]
    /\ pc' = [pc EXCEPT ![p] = "exit"]
    /\ UNCHANGED << file, fileExists, open, holders, cmd, tasks, out, newID, started,
                    hist >>
    /\ UNCHANGED << rows, calc >>

\* completeCmd without the return on !found: it saves whatever it loaded
CompleteBodyNoReturn(p) ==
    /\ pc[p] = "complete"
    /\ LET hits == {j \in 1..Len(tasks[p]) : tasks[p][j].ID = ArgID(p)}
           marked == IF hits = {} THEN tasks[p]
                     ELSE [tasks[p] EXCEPT ![MinOf(hits)].IsCompleted = TRUE]
       IN  /\ tasks' = [tasks EXCEPT ![p] = marked]
           /\ out' = [out EXCEPT ![p] = marked]
    /\ pc' = [pc EXCEPT ![p] = "save_open"]
    /\ UNCHANGED << file, fileExists, open, holders, cmd, status, newID, started, hist >>
    /\ UNCHANGED << printed, rows, calc >>

\* completeCmd: the first task with the ID is marked; without one, an error
CompleteBody(p) ==
    /\ pc[p] = "complete"
    /\ IF HasID(tasks[p], ArgID(p))
       THEN LET i == MinOf({j \in 1..Len(tasks[p]) : tasks[p][j].ID = ArgID(p)})
                marked == [tasks[p] EXCEPT ![i].IsCompleted = TRUE]
            IN  /\ tasks' = [tasks EXCEPT ![p] = marked]
                /\ out' = [out EXCEPT ![p] = marked]
                /\ pc' = [pc EXCEPT ![p] = "save_open"]
                /\ UNCHANGED status
       ELSE /\ status' = [status EXCEPT ![p] = "not found"]
            /\ pc' = [pc EXCEPT ![p] = "exit"]
            /\ UNCHANGED << tasks, out >>
    /\ UNCHANGED << file, fileExists, open, holders, cmd, newID, started, hist >>
    /\ UNCHANGED << printed, rows, calc >>

\* deleteCmd: make([]Task, 0, len(tasks)-1) panics on the empty slice; otherwise
\* every task with the ID is left out, and without one, an error
DeleteBody(p) ==
    /\ pc[p] = "delete"
    /\ IF Len(tasks[p]) = 0
       THEN /\ status' = [status EXCEPT ![p] = "panic: makeslice: cap out of range"]
            /\ pc' = [pc EXCEPT ![p] = "exit"]
            /\ UNCHANGED << out, deleted >>
       ELSE IF HasID(tasks[p], ArgID(p))
       THEN /\ out' = [out EXCEPT ![p] = SelectSeq(tasks[p], LAMBDA t : t.ID # ArgID(p))]
            /\ deleted' = deleted \cup {ArgID(p)}
            /\ pc' = [pc EXCEPT ![p] = "save_open"]
            /\ UNCHANGED status
       ELSE /\ status' = [status EXCEPT ![p] = "not found"]
            /\ pc' = [pc EXCEPT ![p] = "exit"]
            /\ UNCHANGED << out, deleted >>
    /\ UNCHANGED << file, fileExists, open, holders, cmd, tasks, newID, started,
                    loaded, calledSave, fileAtStart, savedLists, ver, base, lastSave,
                    prevSave, added, scn >>
    /\ UNCHANGED << printed, rows, calc >>

(***************************************************************************)
(* saveTasks.                                                              *)
(***************************************************************************)
SaveOpen(p) ==
    /\ pc[p] = "save_open"
    /\ OpenFile(p)
    /\ calledSave' = [calledSave EXCEPT ![p] = TRUE]
    /\ pc' = [pc EXCEPT ![p] = "save_flock"]
    /\ UNCHANGED << holders, cmd, tasks, out, status, newID, started, loaded,
                    fileAtStart, savedLists, ver, base, lastSave, prevSave, added,
                    deleted, scn >>
    /\ UNCHANGED << printed, rows, calc >>

SaveFlock(p) ==
    /\ pc[p] = "save_flock"
    /\ CanFlock
    /\ holders' = holders \cup {p}
    /\ pc' = [pc EXCEPT ![p] = "save_write"]
    /\ UNCHANGED << file, fileExists, open, cmd, tasks, out, status, newID, started,
                    hist >>
    /\ UNCHANGED << printed, rows, calc >>

\* saveTasks from loadFile's return to its own: the header and one record per
\* task go to the csv writer, the deferred writer.Flush writes them at the
\* descriptor's offset 0, the deferred closeFile unlocks; the command then
\* prints its message and returns
SaveWrite(p) ==
    /\ pc[p] = "save_write"
    /\ file' = WriteAtStart(file, SaveBuffer(out[p]))
    /\ closeFile(p)
    /\ savedLists' = savedLists \cup {LoadOf(SaveBuffer(out[p])).tasks}
    /\ ver' = ver + 1
    /\ prevSave' = lastSave
    /\ lastSave' = [by |-> p, base |-> base[p], op |-> cmd[p].op, id |-> newID[p]]
    /\ status' = [status EXCEPT ![p] = "ok"]
    /\ pc' = [pc EXCEPT ![p] = "exit"]
    /\ UNCHANGED << fileExists, cmd, tasks, out, newID, started, loaded, calledSave,
                    fileAtStart, base, added, deleted, scn >>
    /\ UNCHANGED << printed, rows, calc >>

\* the process ends
Exit(p) ==
    /\ pc[p] = "exit"
    /\ pc' = [pc EXCEPT ![p] = "idle"]
    /\ cmd' = [cmd EXCEPT ![p] = NoCmd]
    /\ tasks' = [tasks EXCEPT ![p] = <<>>]
    /\ out' = [out EXCEPT ![p] = <<>>]
    /\ status' = [status EXCEPT ![p] = "none"]
    /\ newID' = [newID EXCEPT ![p] = 0]
    /\ loaded' = [loaded EXCEPT ![p] = <<>>]
    /\ calledSave' = [calledSave EXCEPT ![p] = FALSE]
    /\ fileAtStart' = [fileAtStart EXCEPT ![p] = <<>>]
    /\ base' = [base EXCEPT ![p] = 0]
    /\ printed' = [printed EXCEPT ![p] = <<>>]
    /\ UNCHANGED << file, fileExists, open, holders, started, savedLists, ver,
                    lastSave, prevSave, added, deleted, scn >>
    /\ UNCHANGED << rows, calc >>

(***************************************************************************)
(* Failures of the system calls under loadFile, ReadAll and Flush.         *)
(***************************************************************************)
\* loadTasks: os.OpenFile fails; loadFile's error goes to the command
LoadOpenFail(p) ==
    /\ pc[p] = "load_open"
    /\ status' = [status EXCEPT ![p] = "failed to open file for reading"]
    /\ pc' = [pc EXCEPT ![p] = "exit"]
    /\ UNCHANGED << file, fileExists, open, holders, cmd, tasks, out, newID, started,
                    hist >>
    /\ UNCHANGED << printed, rows, calc >>

\* loadTasks: syscall.Flock fails; loadFile closes the descriptor and returns
\* the error
LoadFlockFail(p) ==
    /\ pc[p] = "load_flock"
    /\ open' = open \ {p}
    /\ status' = [status EXCEPT ![p] = "flock failed"]
    /\ pc' = [pc EXCEPT ![p] = "exit"]
    /\ UNCHANGED << file, fileExists, holders, cmd, tasks, out, newID, started, hist >>
    /\ UNCHANGED << printed, rows, calc >>

\* loadTasks: a read of the file fails inside ReadAll; the deferred closeFile
\* runs and the wrapped error goes to the command
LoadReadFail(p) ==
    /\ pc[p] = "load_read"
    /\ status' = [status EXCEPT ![p] = "failed to read CSV"]
    /\ pc' = [pc EXCEPT ![p] = "exit"]
    /\ closeFile(p)
    /\ UNCHANGED << file, fileExists, cmd, tasks, out, newID, started, hist >>
    /\ UNCHANGED << printed, rows, calc >>

\* saveTasks: os.OpenFile fails
SaveOpenFail(p) ==
    /\ pc[p] = "save_open"
    /\ calledSave' = [calledSave EXCEPT ![p] = TRUE]
    /\ status' = [status EXCEPT ![p] = "failed to open file for reading"]
    /\ pc' = [pc EXCEPT ![p] = "exit"]
    /\ UNCHANGED << file, fileExists, open, holders, cmd, tasks, out, newID, started,
                    loaded, fileAtStart, savedLists, ver, base, lastSave, prevSave,
                    added, deleted, scn >>
    /\ UNCHANGED << printed, rows, calc >>

\* saveTasks: syscall.Flock fails
SaveFlockFail(p) ==
    /\ pc[p] = "save_flock"
    /\ open' = open \ {p}
    /\ status' = [status EXCEPT ![p] = "flock failed"]
    /\ pc' = [pc EXCEPT ![p] = "exit"]
    /\ UNCHANGED << file, fileExists, holders, cmd, tasks, out, newID, started, hist >>
    /\ UNCHANGED << printed, rows, calc >>

\* how many bytes a failing write has put into the file before the error
FailedWriteLens(buf) == {n \in {0, Len(WriteRecord(HeaderRecord))} : n < Len(buf)}

\* saveTasks: every writer.Write only fills the writer's buffer and returns
\* nil; the deferred writer.Flush writes the buffer, the write fails, the
\* error stays in the writer (Flush returns nothing, writer.Error is never
\* read), the deferred closeFile runs and saveTasks returns nil: the command
\* prints its message and returns nil
SaveWriteFail(p) ==
    /\ pc[p] = "save_write"
    /\ \E n \in FailedWriteLens(SaveBuffer(out[p])) :
           file' = WriteAtStart(file, SubSeq(SaveBuffer(out[p]), 1, n))
    /\ closeFile(p)
    /\ status' = [status EXCEPT ![p] = "ok"]
    /\ pc' = [pc EXCEPT ![p] = "exit"]
    /\ UNCHANGED << fileExists, cmd, tasks, out, newID, started, hist >>
    /\ UNCHANGED << printed, rows, calc >>

Fault(p) ==
    \/ LoadOpenFail(p) \/ LoadFlockFail(p) \/ LoadReadFail(p)
    \/ SaveOpenFail(p) \/ SaveFlockFail(p) \/ SaveWriteFail(p)

Step(p) ==
    \/ LoadOpen(p) \/ LoadFlock(p) \/ LoadRead(p)
    \/ AddBody(p) \/ ListBody(p) \/ CompleteBody(p) \/ DeleteBody(p)
    \/ SaveOpen(p) \/ SaveFlock(p) \/ SaveWrite(p)
    \/ Exit(p)

\* any number of processes run commands on the same file
Next == \E p \in Procs : Invoke(p, MaxCmds) \/ Step(p)
Spec == Init /\ [][Next]_vars

\* the same, with every process scheduled again and again and a fair lock: a
\* process that can take a step other than flock takes one, and a flock that
\* finds the lock free again and again returns
SpecFair ==
    /\ Init /\ [][Next]_vars
    /\ \A p \in Procs : WF_vars(Step(p)) /\ SF_vars(LoadFlock(p)) /\ SF_vars(SaveFlock(p))

\* the same, over longer runs
RaceNext == \E p \in Procs : Invoke(p, MaxRaceCmds) \/ Step(p)
SpecRace == Init /\ [][RaceNext]_vars

\* one process runs its commands one after another
SeqNext == Invoke(1, MaxSeqCmds) \/ Step(1)
SpecSeq == Init /\ [][SeqNext]_vars

\* the same, over longer runs
LongNext == Invoke(1, MaxLongCmds) \/ Step(1)
SpecSeqLong == Init /\ [][LongNext]_vars

\* one process runs its commands while system calls may fail
SeqIONext == Invoke(1, MaxIOCmds) \/ Step(1) \/ Fault(1)
SpecSeqIO == Init /\ [][SeqIONext]_vars

\* the data file holds any of the stored files, or does not exist
InitFiles ==
    /\ rows \in StoredFiles
    /\ file = RowsText(rows)
    /\ fileExists \in (IF rows = <<>> THEN BOOLEAN ELSE {TRUE})
    /\ InitProcs

\* one process runs its commands on a file it finds
FilesNext == Invoke(1, MaxFileCmds) \/ Step(1)
SpecFiles == InitFiles /\ [][FilesNext]_vars
(***************************************************************************)
(* The calculator service of src/calcapi/main.go: one handler per path,    *)
(* each validating the request and writing one JSON response.              *)
(***************************************************************************)
StatusOK == 200
StatusBadRequest == 400
StatusMethodNotAllowed == 405

\* everything of the task tracker
store == << file, fileExists, open, holders, pc, cmd, tasks, out, status, newID,
            started, hist, printed, rows >>

Operands == (0 - MaxOperand)..MaxOperand
Paths == {"/add", "/subtract", "/multiply", "/divide"}

\* the requests: a POST whose body decodes into CalculationRequest{A, B}, a
\* POST whose body does not, and a request with another method
Requests ==
    {[path |-> pa, method |-> "POST", valid |-> TRUE, A |-> a, B |-> b] :
        pa \in Paths, a \in Operands, b \in Operands}
    \cup {[path |-> pa, method |-> "POST", valid |-> FALSE, A |-> 0, B |-> 0] : pa \in Paths}
    \cup {[path |-> pa, method |-> "GET", valid |-> TRUE, A |-> 0, B |-> 0] : pa \in Paths}

\* writeError: the status and {"error": message}
writeError(message, code) ==
    [code |-> code, hasResult |-> FALSE, Result |-> 0, Error |-> message]

\* writeResponse: no WriteHeader, so status 200, and {"result": result}
writeResponse(result) ==
    [code |-> StatusOK, hasResult |-> TRUE, Result |-> result, Error |-> ""]

\* validateRequest: the error response it writes, or ok
validateRequest(r) ==
    IF r.method # "POST"
    THEN [ok |-> FALSE, resp |-> writeError("Method not allowed", StatusMethodNotAllowed)]
    ELSE IF ~r.valid
    THEN [ok |-> FALSE, resp |-> writeError("Invalid request body", StatusBadRequest)]
    ELSE [ok |-> TRUE, resp |-> NoResponse]

Abs(n) == IF n < 0 THEN 0 - n ELSE n

\* Go's a / b on int: the quotient truncated toward zero
Quo(a, b) ==
    IF (a < 0) # (b < 0) THEN 0 - (Abs(a) \div Abs(b)) ELSE Abs(a) \div Abs(b)

\* a request arrives; the connection serves one request at a time
Receive(r) ==
    /\ req = NoRequest \/ resp # NoResponse
    /\ req' = r
    /\ resp' = NoResponse
    /\ UNCHANGED store

\* the response of a handler that computes result on a validated request
Answer(r, result) ==
    LET v == validateRequest(r) IN IF v.ok THEN writeResponse(result) ELSE v.resp

addHandler ==
    /\ req.path = "/add" /\ resp = NoResponse
    /\ resp' = Answer(req, req.A + req.B)
    /\ UNCHANGED << req, store >>

subtractHandler ==
    /\ req.path = "/subtract" /\ resp = NoResponse
    /\ resp' = Answer(req, req.A - req.B)
    /\ UNCHANGED << req, store >>

multiplyHandler ==
    /\ req.path = "/multiply" /\ resp = NoResponse
    /\ resp' = Answer(req, req.A * req.B)
    /\ UNCHANGED << req, store >>

\* divideHandler without the test of req.B: the division panics, net/http
\* recovers and drops the connection
divideHandlerNoCheck ==
    /\ req.path = "/divide" /\ resp = NoResponse
    /\ resp' = IF ~validateRequest(req).ok THEN validateRequest(req).resp
               ELSE IF req.B = 0
               THEN [code |-> 0, hasResult |-> FALSE, Result |-> 0,
                     Error |-> "panic: integer divide by zero"]
               ELSE writeResponse(Quo(req.A, req.B))
    /\ UNCHANGED << req, store >>

divideHandler ==
    /\ req.path = "/divide" /\ resp = NoResponse
    /\ resp' = IF ~validateRequest(req).ok THEN validateRequest(req).resp
               ELSE IF req.B = 0
               THEN writeError("Division by zero is not allowed", StatusBadRequest)
               ELSE writeResponse(Quo(req.A, req.B))
    /\ UNCHANGED << req, store >>

CalcNext ==
    \/ \E r \in Requests : Receive(r)
    \/ addHandler \/ subtractHandler \/ multiplyHandler \/ divideHandler
SpecCalc == Init /\ [][CalcNext]_vars

(***************************************************************************)
(* Properties.                                                             *)
(***************************************************************************)
Locked == {"load_read", "save_write"}
Waiting == {"load_flock", "save_flock"}

Distinct(seq) == \A i, j \in 1..Len(seq) : i # j => seq[i] # seq[j]

\* the command's saveTasks has written and returned
Saved(p) == pc[p] = "exit" /\ calledSave[p] /\ status[p] = "ok"

LoadFailed(p) == status[p] \in {"failed to read CSV", "panic: index out of range"}

\* C1: at most one process is between loadFile's return and closeFile (holds
\* the open, locked descriptor), in loadTasks or in saveTasks; a process that
\* is inside that region is the holder, so a second flock has not returned
MutualExclusion ==
    /\ Cardinality(holders) <= 1
    /\ \A p \in Procs : pc[p] \in Locked <=> p \in holders
    /\ holders \subseteq open

\* a process waits in flock, its descriptor open, while another holds the lock
C1Witness ==
    \E p, q \in Procs : p # q /\ p \in holders /\ pc[q] \in Waiting /\ q \in open

\* C2: whatever a loadTasks returned is the empty list or exactly what loads
\* from the complete bytes of one earlier saveTasks
NoTornRead ==
    \A p \in Procs : loaded[p] = <<>> \/ loaded[p] \in savedLists

\* C3: when saveTasks(ts) has written, a loadTasks of the file returns exactly
\* what the header followed by the records of ts decodes to, whatever the file
\* held before
FullRewrite ==
    \A p \in Procs : (Saved(p) /\ lastSave.by = p) =>
        LoadOf(file) = LoadOf(SaveBuffer(out[p]))

\* q saved last, after another command that had loaded the same version of the
\* file as q: load, load, save, save
RacedSave(q) ==
    /\ Saved(q)
    /\ lastSave.by = q
    /\ prevSave.by \notin {0, q}
    /\ prevSave.base = lastSave.base
    /\ ver = lastSave.base + 2

\* C4: when two commands loaded the same version of the file and then saved
\* one after the other, the file after the second save holds exactly what the
\* second saved and nothing of the first, and two such adds gave their tasks
\* the same ID
LastSaveWins ==
    \A q \in Procs : RacedSave(q) =>
        /\ LoadOf(file) = LoadOf(SaveBuffer(out[q]))
        /\ (prevSave.op = "add" /\ lastSave.op = "add") => prevSave.id = lastSave.id

\* C5: after every saveTasks that has written, the tasks the file holds have
\* pairwise different IDs
UniqueIDs ==
    \A p \in Procs : (Saved(p) /\ lastSave.by = p) =>
        LET r == LoadOf(file) IN r.err = NoErr => Distinct(IDsOf(r.tasks))

\* C6: commands run one after another: no add gives its task an ID deleted
\* before, and the IDs of successive adds strictly increase
IDsNeverReused ==
    \A i \in 1..Len(added) :
        /\ added[i].id \notin added[i].dels
        /\ i > 1 => added[i - 1].id < added[i].id

\* a complete has ended whose ID no loaded task has
CompleteMissing(p) ==
    /\ pc[p] = "exit"
    /\ cmd[p].op = "complete"
    /\ ~Atoi(cmd[p].text).err
    /\ ~LoadFailed(p)
    /\ ~HasID(loaded[p], ArgID(p))

\* C7: a complete whose ID no loaded task has ends with the not-found error,
\* has not called saveTasks, has changed no task, and the file holds the bytes
\* it held when the command started
CompleteNotFound ==
    \A p \in Procs : CompleteMissing(p) =>
        /\ status[p] = "not found"
        /\ ~calledSave[p]
        /\ tasks[p] = loaded[p]
        /\ file = fileAtStart[p]

\* a complete of an absent ID has ended on a store that holds tasks
C7Witness ==
    \E p \in Procs : CompleteMissing(p) /\ loaded[p] # <<>> /\ status[p] = "not found"

\* a delete has ended whose ID no loaded task has
DeleteMissing(p) ==
    /\ pc[p] = "exit"
    /\ cmd[p].op = "delete"
    /\ ~Atoi(cmd[p].text).err
    /\ ~LoadFailed(p)
    /\ ~HasID(loaded[p], ArgID(p))

\* C8: a delete whose ID no loaded task has ends with the not-found error, has
\* not called saveTasks, and the file is untouched, the empty store included
DeleteNotFound ==
    \A p \in Procs : DeleteMissing(p) =>
        /\ status[p] = "not found"
        /\ ~calledSave[p]
        /\ file = fileAtStart[p]

Flags(ts) == [i \in 1..Len(ts) |-> ts[i].IsCompleted]
Quiet == \A p \in Procs : pc[p] \in {"idle", "exit"}

\* C9: along add, add, complete 1, delete 1, add on the empty store, the file
\* after each command holds: task 1 not completed; tasks 1, 2; task 1 completed
\* and task 2 not; task 2 alone; tasks 2, 3
Scenario ==
    (Quiet /\ scn >= 1) =>
        LET r == LoadOf(file)
            ids == IDsOf(r.tasks)
            flags == Flags(r.tasks)
        IN  /\ r.err = NoErr
            /\ scn = 1 => ids = <<1>> /\ flags = <<FALSE>>
            /\ scn = 2 => ids = <<1, 2>> /\ flags = <<FALSE, FALSE>>
            /\ scn = 3 => ids = <<1, 2>> /\ flags = <<TRUE, FALSE>>
            /\ scn = 4 => ids = <<2>> /\ flags = <<FALSE>>
            /\ scn = 5 => ids = <<2, 3>> /\ flags = <<FALSE, FALSE>>

\* C10: commands run one after another from the empty store: as long as
\* nothing was deleted, after N adds the file holds N tasks with IDs 1..N and
\* the added descriptions in the order of the adds, and getNextID of them is N + 1
AddsCount ==
    (Quiet /\ deleted = {}) =>
        LET r == LoadOf(file)
        IN  /\ r.err = NoErr
            /\ IDsOf(r.tasks) = [i \in 1..Len(added) |-> i]
            /\ [i \in 1..Len(r.tasks) |-> r.tasks[i].Description]
                   = [i \in 1..Len(added) |-> added[i].text]
            /\ getNextID(r.tasks) = Len(added) + 1

\* three adds have ended and nothing was deleted
C10Witness ==
    /\ Quiet
    /\ deleted = {}
    /\ Len(added) >= 3
    /\ Len(LoadOf(file).tasks) = Len(added)

\* addCmd has taken getNextID(tasks) and appended the new task
AddDone(p) == cmd[p].op = "add" /\ Len(tasks[p]) = Len(loaded[p]) + 1

Reverse(seq) == [i \in 1..Len(seq) |-> seq[Len(seq) + 1 - i]]

\* C11: the ID getNextID gave to an add is 1 on the empty sequence and else
\* one more than the greatest ID of the loaded sequence (above every ID, and
\* its predecessor is an ID), the same for the sequence in reverse order; the
\* loaded tasks are still the sequence's first elements, in order, and before
\* saveTasks is called the file holds the bytes it held at the start
NextIDPure ==
    \A p \in Procs : AddDone(p) =>
        LET ids == IDsOf(loaded[p])
        IN  /\ loaded[p] = <<>> => newID[p] = 1
            /\ \A i \in 1..Len(ids) : ids[i] < newID[p]
            /\ loaded[p] # <<>> => \E i \in 1..Len(ids) : ids[i] = newID[p] - 1
            /\ getNextID(Reverse(loaded[p])) = newID[p]
            /\ SubSeq(tasks[p], 1, Len(loaded[p])) = loaded[p]
            /\ pc[p] = "save_open" => file = fileAtStart[p]

\* an add has taken its ID from tasks loaded with the greatest ID first
C11Witness ==
    \E p \in Procs :
        /\ AddDone(p)
        /\ Len(loaded[p]) = 2
        /\ loaded[p][1].ID > loaded[p][2].ID
        /\ newID[p] = loaded[p][1].ID + 1

\* between loadFile's call and the return of loadTasks or saveTasks
InStore == {"load_flock", "load_read", "save_flock", "save_write"}

\* C12: a process that is not inside loadTasks or saveTasks (before its
\* command, between the two, after the return of either by success or by a
\* failed open, flock, read or write, and after its command) holds neither
\* an open descriptor nor the lock
LockNotLeaked ==
    \A p \in Procs : pc[p] \notin ({"load_open", "save_open"} \cup InStore) =>
        p \notin open /\ p \notin holders

\* a command has ended on a failed flock in saveTasks, after an earlier command
\* whose save has written, and the descriptor is closed
C12Witness ==
    \E p \in Procs :
        /\ pc[p] = "exit" /\ status[p] = "flock failed" /\ calledSave[p]
        /\ ver >= 1
        /\ open = {} /\ holders = {}

\* C13: commands run one after another: a command that called saveTasks and
\* ended with success has put the whole buffer of its saveTasks into the file
\* it found; when the open, the flock or the write of the flush has failed,
\* the command has ended with an error instead
SaveSurfaced ==
    \A p \in Procs : (pc[p] = "exit" /\ calledSave[p] /\ status[p] = "ok") =>
        file = WriteAtStart(fileAtStart[p], SaveBuffer(out[p]))

\* the loadTasks of the first command, on the stored file, has returned
FirstLoadDone(p) ==
    /\ started = 1
    /\ pc[p] \notin {"idle", "load_open", "load_flock", "load_read"}
    /\ status[p] # "invalid task ID"

Columns(rs) == {Len(rs[i].fields) : i \in 1..Len(rs)}

\* C14: on a stored file whose records all have four columns loadTasks
\* succeeds and returns one Task per record after the first, each column with
\* its value when well formed and with 0, the zero Time or false when
\* malformed, the other columns and records as stored; loadTasks fails with
\* the read error exactly when the records differ in their number of
\* columns, and fails in any way only when not every record has four
DecodeLenient ==
    \A p \in Procs : FirstLoadDone(p) =>
        /\ Columns(rows) \subseteq {4} =>
               /\ ~LoadFailed(p)
               /\ Len(loaded[p]) = Len(rows) - (IF rows = <<>> THEN 0 ELSE 1)
               /\ \A i \in 1..Len(loaded[p]) : loaded[p][i] = rows[i + 1].task
        /\ status[p] = "failed to read CSV" <=> Cardinality(Columns(rows)) > 1
        /\ LoadFailed(p) => ~(Columns(rows) \subseteq {4})

\* a load has returned a record with three malformed columns as a Task of
\* zero values, and the well-formed record after it as stored
C14Witness ==
    \E p \in Procs :
        /\ FirstLoadDone(p)
        /\ Len(rows) = 3
        /\ rows[2] = StoredRow(IDBad, AtBad, DoneBad)
        /\ rows[3] = StoredRow(IDThree, AtGood, DoneTrue)
        /\ loaded[p] = << [ID |-> 0, Description |-> <<"a">>, CreatedAt |-> ZeroTime,
                            IsCompleted |-> FALSE],
                          [ID |-> 3, Description |-> <<"b", ",", "c">>, CreatedAt |-> Time1,
                            IsCompleted |-> TRUE] >>

\* C15: a loadTasks that succeeds on a stored file returns no task when the
\* file did not exist (it does now), is empty or holds one record only;
\* otherwise it returns one Task for each record after the first, in the
\* order of the file, and none for the first, be it the header or not
HeaderSkipped ==
    \A p \in Procs : (FirstLoadDone(p) /\ ~LoadFailed(p)) =>
        /\ fileExists
        /\ Len(rows) <= 1 => loaded[p] = <<>>
        /\ Len(rows) >= 1 => Len(loaded[p]) = Len(rows) - 1
        /\ \A i \in 1..Len(loaded[p]) :
               /\ loaded[p][i].Description = rows[i + 1].fields[2]
               /\ loaded[p][i].ID = rows[i + 1].task.ID

\* a file without header, of two task records, has loaded as the second alone
C15Witness ==
    \E p \in Procs :
        /\ FirstLoadDone(p) /\ ~LoadFailed(p)
        /\ Len(rows) = 2
        /\ rows[1] = StoredRow(IDOne, AtGood, DoneFalse)
        /\ rows[2] = StoredRow(IDThree, AtGood, DoneTrue)
        /\ IDsOf(loaded[p]) = <<3>>

\* C16: the Task an add has created, encoded as saveTasks encodes it, written
\* and read back as a csv record and decoded as loadTasks decodes it, is the
\* same Task in ID, description, creation time and flag
RoundTrip ==
    \A p \in Procs : AddDone(p) =>
        LET t == tasks[p][Len(tasks[p])]
            back == ReadAll(WriteRecord(EncodeTask(t)))
        IN  /\ back.err = NoErr
            /\ back.records = << EncodeTask(t) >>
            /\ DecodeTask(back.records[1]) = t

\* a list has printed and returned
ListDone(p) == pc[p] = "exit" /\ cmd[p].op = "list" /\ status[p] = "ok"

\* C17: commands run one after another: a list that has returned has printed
\* one row for every loaded task and, without --all, for those not completed
\* only and for each of them, in the order loaded, each row with the task's ID
\* and description; it has not called saveTasks, and the file holds the bytes
\* it held when the command started
ListFilter ==
    \A p \in Procs : ListDone(p) =>
        LET keep == {i \in 1..Len(loaded[p]) : cmd[p].all \/ ~loaded[p][i].IsCompleted}
            order == SortedSeq(keep)
        IN  /\ Len(printed[p]) = Cardinality(keep)
            /\ \A k \in 1..Len(printed[p]) :
                   /\ printed[p][k][1] = loaded[p][order[k]].ID
                   /\ printed[p][k][2] = loaded[p][order[k]].Description
                   /\ Len(printed[p][k]) = (IF cmd[p].all THEN 3 ELSE 2)
                   /\ cmd[p].all => printed[p][k][3] = loaded[p][order[k]].IsCompleted
            /\ ~calledSave[p]
            /\ ver = base[p]
            /\ file = fileAtStart[p]

\* a list without --all has loaded a completed task and one after it that is
\* not, and has printed the second alone
C17Witness ==
    \E p \in Procs :
        /\ ListDone(p)
        /\ ~cmd[p].all
        /\ Len(loaded[p]) = 2
        /\ loaded[p][1].IsCompleted /\ ~loaded[p][2].IsCompleted
        /\ printed[p] = << << loaded[p][2].ID, loaded[p][2].Description >> >>

\* the calculator has answered a POST whose body decoded
Answered == resp # NoResponse /\ req.method = "POST" /\ req.valid

\* C18: every answer to a POST with a valid body: /add, /subtract and
\* /multiply answer 200 with the sum, the difference and the product; /divide
\* answers 200 with the quotient q of a by b (a = q * b + r with |r| < |b|
\* and r zero or of a's sign) when b is not 0, and 400 with the error
\* "Division by zero is not allowed" and no result when b is 0
CalcAnswers ==
    Answered =>
        /\ req.path = "/add" =>
               resp = [code |-> 200, hasResult |-> TRUE, Result |-> req.A + req.B, Error |-> ""]
        /\ req.path = "/subtract" =>
               resp = [code |-> 200, hasResult |-> TRUE, Result |-> req.A - req.B, Error |-> ""]
        /\ req.path = "/multiply" =>
               resp = [code |-> 200, hasResult |-> TRUE, Result |-> req.A * req.B, Error |-> ""]
        /\ (req.path = "/divide" /\ req.B # 0) =>
               LET r == req.A - resp.Result * req.B
               IN  /\ resp.code = 200 /\ resp.hasResult /\ resp.Error = ""
                   /\ Abs(r) < Abs(req.B)
                   /\ r * req.A >= 0
        /\ (req.path = "/divide" /\ req.B = 0) =>
               /\ resp.code = 400
               /\ resp.Error = "Division by zero is not allowed"
               /\ ~resp.hasResult

\* /divide has refused a division by zero
C18Witness ==
    /\ Answered
    /\ req.path = "/divide"
    /\ req.B = 0 /\ req.A # 0
    /\ resp.code = 400
    /\ resp.Error = "Division by zero is not allowed"

\* C19: a process holds the lock only between the flock and the return of
\* the same loadTasks or saveTasks; every process that waits in flock comes to
\* hold the lock, and every command that has started ends
NoStarvation ==
    /\ [](\A p \in Procs : p \in holders => pc[p] \in Locked)
    /\ \A p \in Procs : (pc[p] \in Waiting) ~> (p \in holders)
    /\ \A p \in Procs : (pc[p] # "idle") ~> (pc[p] = "idle")

\* a process waits in the flock of its saveTasks while the other holds the
\* lock inside its loadTasks
C19Witness ==
    \E p, q \in Procs :
        /\ pc[p] = "save_flock" /\ p \in open /\ p \notin holders
        /\ pc[q] = "load_read" /\ q \in holders
====
